---- MODULE Spec2Model ----
(***************************************************************************)
(* Account handlers of the guriraline server: the user controller          *)
(* (create-user, activation, login-user, update-user-info, update-avatar,  *)
(* delete-user, forgot-password, reset-password), the shop controller      *)
(* (create-shop, activation, login-shop, update-shop-avatar,               *)
(* update-seller-info, update-payment-methods, delete-withdraw-method,     *)
(* delete-seller), the session helper sendToken and the Product images     *)
(* validator.  Each handler is one action; its response, and the Media     *)
(* Service calls it made, are kept in `last`.                              *)
(***************************************************************************)
EXTENDS Integers, Sequences, FiniteSets, TLC

\* ------------------------------------------------------------------ bounds
MaxSteps == 4       \* writes (store, Media Service, mailed token) and clock ticks in a run
MaxImages == 6      \* longest images list given to the Product validator
MaxProcs == 2       \* requests handled at once
MaxInfoSteps == 5   \* writes in a run of the user handlers alone

\* --------------------------------------------------------------- constants
\* expiresIn: '10m' of createToken / createActivationToken, in clock ticks
ActivationTTL == 1
\* the images validator's required length
RequiredImages == 5

\* ------------------------------------------------------------------ values
Emails == {"a@x.com", "b@x.com"}
Passwords == {"p", "w"}        \* passwords tried at login
ChosenPasswords == {"p"}       \* the password given at registration
NewPasswords == {"w"}          \* the password given to reset-password
Names == {"n1"}                \* the name given at registration
NewNames == {"n2"}             \* the name given to update-user-info
Phones == {"t1"}
NewInfos == {"i2"}             \* the profile given to update-seller-info
WithdrawMethods == {"bank"}
NoValue == ""       \* a request field that is missing (undefined)
NoId == 0           \* no document / no public_id

VARIABLES
  users,      \* User collection: ObjectId -> document
  shops,      \* Shop collection: ObjectId -> document
  media,      \* public_ids the Media Service currently stores
  issued,     \* activation / reset tokens the handlers have mailed out
  now,        \* the clock jwt.verify and jwt.sign read
  nextId,     \* next ObjectId the store hands out
  nextMedia,  \* next public_id the Media Service hands out
  last,       \* the last request and its response
  steps,      \* writes and clock ticks the run may still make
  spent,      \* history: <<token, id>> for every /activation that went through
  images,     \* the images list last given to the Product validator
  accepted,   \* the validator's verdict on it
  pending     \* requests in flight between their store read and their store write

vars == <<users, shops, media, issued, now, nextId, nextMedia, last, steps, spent,
          images, accepted, pending>>
acct == <<users, shops, media, issued, now, nextId, nextMedia, last, steps, spent>>
prod == <<images, accepted>>

\* ------------------------------------------------------------------ tokens
\* A signed token: the payload shape (wrap = "user": {user: {...}} as signed by
\* createToken; wrap = "flat": {id, email} as signed by createActivationToken),
\* whether its signature verifies under ACTIVATION_SECRET, and its exp claim.
NoToken == [wrap |-> "none", sig |-> FALSE, exp |-> 0, email |-> NoValue,
            password |-> NoValue, name |-> NoValue, avatar |-> NoId, id |-> NoId]

createToken(user) ==
  [wrap |-> "user", sig |-> TRUE, exp |-> now + ActivationTTL, email |-> user.email,
   password |-> user.password, name |-> user.name, avatar |-> user.avatar, id |-> user.id]

createActivationToken(payload) ==
  [wrap |-> "flat", sig |-> TRUE, exp |-> now + ActivationTTL, email |-> payload.email,
   password |-> NoValue, name |-> NoValue, avatar |-> NoId, id |-> payload.id]

\* jwt.verify: the signature is checked first, then the exp claim; either failure
\* is thrown, and the thrown error's name is what the handlers' catch blocks read.
jwtVerify(t) ==
  IF ~t.sig THEN "JsonWebTokenError"
  ELSE IF now >= t.exp THEN "TokenExpiredError"
  ELSE "ok"

\* A token as tampered with in transit: same payload, signature no longer verifies.
Tampered(t) == [t EXCEPT !.sig = FALSE]

\* Tokens signed under ACTIVATION_SECRET for an email address before any shop
\* exists (create-shop demands one, and only issues one after it has saved),
\* signed within the last ActivationTTL ticks: the oldest has just expired.
SignedFor(e) ==
  {[wrap |-> "flat", sig |-> TRUE, exp |-> x, email |-> e, password |-> NoValue,
    name |-> NoValue, avatar |-> NoId, id |-> NoId] : x \in now..(now + ActivationTTL)}

\* What a client can put in an activation_token / token field: nothing, a token
\* it was mailed, or one it has altered.
TokenInputs == {NoToken} \cup issued \cup {Tampered(t) : t \in issued}

\* The shop handlers are also given the tokens signed for an address.
ShopTokenInputs == TokenInputs \cup UNION {SignedFor(e) : e \in Emails}

\* ------------------------------------------------------- credential service
\* The pre-save hook hashes the password; comparePassword hashes and compares.
Hash(p) == <<"bcrypt", p>>
comparePassword(entered, stored) == Hash(entered) = stored

\* ------------------------------------------------------------ account store
findOne(coll, e) ==
  IF \E i \in DOMAIN coll : coll[i].email = e
  THEN CHOOSE i \in DOMAIN coll :
         coll[i].email = e /\ \A j \in DOMAIN coll : coll[j].email = e => i <= j
  ELSE NoId

findById(coll, i) == IF i \in DOMAIN coll THEN i ELSE NoId

\* the lookup as it would be if its result were never tested
EmailTakenUnchecked(coll, e) == FALSE

\* const userEmail = await User.findOne({ email }); if (userEmail) ...
EmailTaken(coll, e) == findOne(coll, e) /= NoId

Put(coll, i, doc) == [j \in DOMAIN coll \cup {i} |-> IF j = i THEN doc ELSE coll[j]]

\* the delete as it would be if the document were left in place
RemoveNothing(coll, i) == coll

\* findByIdAndDelete
Remove(coll, i) == [j \in DOMAIN coll \ {i} |-> coll[j]]

\* ---------------------------------------------------------------- sessions
NoSession == [sub |-> NoId]
getJwtToken(i) == [sub |-> i]
generateToken(i) == [sub |-> i]

\* ---------------------------------------------------------------- responses
Req(op, email, password, token, id) ==
  [op |-> op, email |-> email, password |-> password, reqToken |-> token, id |-> id]

Resp(req, status, msg, session, cookie, calls) ==
  [op |-> req.op, email |-> req.email, password |-> req.password,
   reqToken |-> req.reqToken, id |-> req.id,
   status |-> status, msg |-> msg, session |-> session, cookie |-> cookie,
   calls |-> calls]

\* next(new ErrorHandler(msg, status)): the uniform JSON error, no token, no cookie
Fail(req, status, msg, calls) == Resp(req, status, msg, NoSession, NoSession, calls)

Destroy(i) == [call |-> "destroy", id |-> i]
Upload(i) == [call |-> "upload", id |-> i]

\* sendToken(user, statusCode, res, req): the handlers call it with three
\* arguments, so req is undefined and reading req.secure throws a TypeError
\* before the cookie is set; the handler's catch answers 500.
Undefined == "undefined"
sendToken(req, userId, statusCode, httpReq) ==
  IF httpReq = Undefined
  THEN Fail(req, 500, "Cannot read properties of undefined (reading 'secure')", <<>>)
  ELSE Resp(req, statusCode, "success", getJwtToken(userId), getJwtToken(userId), <<>>)

\* sendShopToken(seller, statusCode, res): the token in the body, no cookie
sendShopToken(req, sellerId, statusCode) ==
  Resp(req, statusCode, "success", generateToken(sellerId), NoSession, <<>>)

\* No response in flight.
NoResponse == Fail(Req("none", NoValue, NoValue, NoToken, NoId), 0, "", <<>>)

\* ------------------------------------------------------ requests in flight
\* Requests the server is handling at once.  A handler is suspended at each
\* await; pc names the await it will resume from.
Procs == 1..MaxProcs
Idle == [pc |-> "idle", token |-> NoToken, email |-> NoValue, password |-> NoValue,
         status |-> 0]
Answered(status) == [Idle EXCEPT !.pc = "answered", !.status = status]

\* ------------------------------------------------------------------- Init
Empty ==
  /\ users = <<>>
  /\ shops = <<>>
  /\ media = {}
  /\ issued = {}
  /\ now = 0
  /\ nextId = 1
  /\ nextMedia = 1
  /\ last = NoResponse
  /\ spent = {}
  /\ images = <<>>
  /\ accepted = FALSE
  /\ pending = [p \in Procs |-> Idle]

Init ==
  /\ Empty
  /\ steps = MaxSteps

\* A handler takes the next request once the previous response has gone out.
Accept == last = NoResponse

\* The handler writes: to a collection, to the Media Service, or a token to a mailbox.
Step ==
  /\ steps > 0
  /\ steps' = steps - 1

\* res.json(...) / the error middleware: the response leaves the server.
Deliver ==
  /\ last /= NoResponse
  /\ last' = NoResponse
  /\ UNCHANGED <<users, shops, media, issued, now, nextId, nextMedia, steps, spent, prod, pending>>

\* Time passes between requests.
Tick ==
  /\ last = NoResponse
  /\ Step
  /\ now' = now + 1
  /\ UNCHANGED <<users, shops, media, issued, nextId, nextMedia, last, spent, prod, pending>>

\* ------------------------------------------------------ POST /create-user
CreateUser(name, email, password, hasAvatar, uploadOk, mailOk) ==
  LET req == Req("create-user", email, NoValue, NoToken, NoId)
      user == [name |-> name, email |-> email, password |-> password,
               avatar |-> nextMedia, id |-> NoId]
  IN
  /\ Accept
  /\ IF name = NoValue \/ email = NoValue \/ password = NoValue \/ ~hasAvatar
     THEN /\ last' = Fail(req, 400, "Missing required fields", <<>>)
          /\ UNCHANGED <<media, issued, nextMedia, steps>>
     ELSE IF EmailTaken(users, email)
     THEN /\ last' = Fail(req, 400, "User already exists", <<>>)
          /\ UNCHANGED <<media, issued, nextMedia, steps>>
     ELSE IF ~uploadOk
     THEN /\ last' = Fail(req, 500, "Error uploading avatar", <<>>)
          /\ UNCHANGED <<media, issued, nextMedia, steps>>
     ELSE /\ Step
          /\ media' = media \cup {nextMedia}
          /\ nextMedia' = nextMedia + 1
          /\ IF mailOk
             THEN /\ issued' = issued \cup {createToken(user)}
                  /\ last' = Resp(req, 201, "Please check your email", NoSession,
                                  NoSession, <<Upload(nextMedia)>>)
             ELSE /\ issued' = issued
                  /\ last' = Fail(req, 500, "mail error", <<Upload(nextMedia)>>)
  /\ UNCHANGED <<users, shops, now, nextId, spent, prod, pending>>

\* ---------------------------------------------------- POST /activation (user)
\* the document as it would be with name and email taken from the wrong fields
UserDocSwapped(name, email, password, avatar) ==
  [name |-> email, email |-> name, password |-> Hash(password), avatar |-> avatar,
   phoneNumber |-> NoValue]

\* User.create({ name, email, avatar, password })
UserDoc(name, email, password, avatar) ==
  [name |-> name, email |-> email, password |-> Hash(password), avatar |-> avatar,
   phoneNumber |-> NoValue]

ActivateUser(token) ==
  LET req == Req("activation", NoValue, NoValue, token, NoId)
      v == jwtVerify(token)
  IN
  /\ Accept
  /\ IF token = NoToken
     THEN /\ last' = Fail(req, 400, "Activation token is missing", <<>>)
          /\ UNCHANGED <<users, nextId, steps, spent>>
     ELSE IF v /= "ok"
     THEN /\ last' = Fail(req, 500, v, <<>>)
          /\ UNCHANGED <<users, nextId, steps, spent>>
     ELSE IF token.wrap /= "user"
     THEN \* newUser.user is undefined: destructuring it throws
          /\ last' = Fail(req, 500, "TypeError", <<>>)
          /\ UNCHANGED <<users, nextId, steps, spent>>
     ELSE IF EmailTaken(users, token.email)
     THEN /\ last' = Fail(req, 400, "User already exists", <<>>)
          /\ UNCHANGED <<users, nextId, steps, spent>>
     ELSE IF token.password = NoValue
     THEN \* a reset token carries no password: User.create fails validation
          /\ last' = Fail(req, 500, "ValidationError", <<>>)
          /\ UNCHANGED <<users, nextId, steps, spent>>
     ELSE /\ Step
          /\ users' = Put(users, nextId,
                          UserDoc(token.name, token.email, token.password, token.avatar))
          /\ nextId' = nextId + 1
          /\ spent' = spent \cup {<<token, nextId>>}
          /\ last' = sendToken(req, nextId, 201, Undefined)
  /\ UNCHANGED <<shops, media, issued, now, nextMedia, prod, pending>>

\* ------------------------------------------------------ POST /login-user
LoginUser(email, password) ==
  LET req == Req("login-user", email, password, NoToken, NoId)
      u == findOne(users, email)
  IN
  /\ Accept
  /\ last' = IF email = NoValue \/ password = NoValue
             THEN Fail(req, 400, "Please fill all fields!", <<>>)
             ELSE IF u = NoId
             THEN Fail(req, 400, "User doesn't exist!", <<>>)
             ELSE IF ~comparePassword(password, users[u].password)
             THEN Fail(req, 400, "Invalid password!", <<>>)
             ELSE sendToken(req, u, 201, Undefined)
  /\ UNCHANGED <<users, shops, media, issued, now, nextId, nextMedia, steps, spent, prod, pending>>

\* ------------------------------------------------- authorization middleware
\* isAuthenticated + isAdmin("Admin"): 0 lets the request through.
Callers == {"anon", "user", "admin"}
isAdmin(caller) ==
  IF caller = "anon" THEN 401 ELSE IF caller /= "admin" THEN 403 ELSE 0

\* ------------------------------------------------- PUT /update-user-info
\* caller: the account isAuthenticated resolved from the session (req.user)
UpdateUserInfo(caller, email, password, phoneNumber, name) ==
  LET req == Req("update-user-info", email, NoValue, NoToken, caller)
      u == findOne(users, email)
  IN
  /\ Accept
  /\ caller \in DOMAIN users
  /\ IF u = NoId
     THEN /\ last' = Fail(req, 400, "User not found", <<>>)
          /\ UNCHANGED <<users, steps>>
     ELSE IF ~comparePassword(password, users[u].password)
     THEN /\ last' = Fail(req, 400, "Invalid password!", <<>>)
          /\ UNCHANGED <<users, steps>>
     ELSE /\ Step
          /\ users' = [users EXCEPT ![u].name = name, ![u].email = email,
                                    ![u].phoneNumber = phoneNumber]
          /\ last' = Resp(req, 200, "success", NoSession, NoSession, <<>>)
  /\ UNCHANGED <<shops, media, issued, now, nextId, nextMedia, spent, prod, pending>>

\* ----------------------------------------------------- PUT /update-avatar
UpdateAvatar(caller, hasAvatar, destroyOk) ==
  LET req == Req("update-avatar", NoValue, NoValue, NoToken, caller)
      u == findById(users, caller)
      imageId == users[u].avatar
  IN
  /\ Accept
  /\ caller \in DOMAIN users
  /\ IF u = NoId
     THEN /\ last' = Fail(req, 404, "User not found", <<>>)
          /\ UNCHANGED <<media, steps>>
     ELSE IF ~hasAvatar
     THEN \* req.body.avatar === "": the document is saved as it was read
          /\ last' = Resp(req, 200, "success", NoSession, NoSession, <<>>)
          /\ UNCHANGED <<media, steps>>
     ELSE IF ~destroyOk
     THEN /\ last' = Fail(req, 500, "destroy failed", <<Destroy(imageId)>>)
          /\ UNCHANGED <<media, steps>>
     ELSE \* sharp and streamifier are never required: the call to sharp throws
          \* a ReferenceError once the old avatar has been destroyed
          /\ Step
          /\ media' = media \ {imageId}
          /\ last' = Fail(req, 500, "sharp is not defined", <<Destroy(imageId)>>)
  /\ UNCHANGED <<users, shops, issued, now, nextId, nextMedia, spent, prod, pending>>

\* ------------------------------------------------ DELETE /delete-user/:id
DeleteUser(caller, id, destroyOk) ==
  LET req == Req("delete-user", NoValue, NoValue, NoToken, id)
      u == findById(users, id)
      imageId == users[u].avatar
  IN
  /\ Accept
  /\ IF isAdmin(caller) /= 0
     THEN /\ last' = Fail(req, isAdmin(caller), "not allowed", <<>>)
          /\ UNCHANGED <<users, media, steps>>
     ELSE IF u = NoId
     THEN /\ last' = Fail(req, 404, "User not found", <<>>)
          /\ UNCHANGED <<users, media, steps>>
     ELSE IF ~destroyOk
     THEN /\ last' = Fail(req, 500, "destroy failed", <<Destroy(imageId)>>)
          /\ UNCHANGED <<users, media, steps>>
     ELSE /\ Step
          /\ media' = media \ {imageId}
          /\ users' = Remove(users, id)
          /\ last' = Resp(req, 200, "User deleted successfully!", NoSession, NoSession,
                          <<Destroy(imageId)>>)
  /\ UNCHANGED <<shops, issued, now, nextId, nextMedia, spent, prod, pending>>

\* --------------------------------------------------- POST /forgot-password
\* The document as findOne returns it: password is select: false, so absent.
Found(coll, i) ==
  [name |-> coll[i].name, email |-> coll[i].email, password |-> NoValue,
   avatar |-> coll[i].avatar, id |-> i]

ForgotPassword(email, mailOk) ==
  LET req == Req("forgot-password", email, NoValue, NoToken, NoId)
      u == findOne(users, email)
  IN
  /\ Accept
  /\ IF email = NoValue
     THEN /\ last' = Fail(req, 400, "Email is required", <<>>)
          /\ UNCHANGED <<issued, steps>>
     ELSE IF u = NoId
     THEN /\ last' = Fail(req, 404, "User not found", <<>>)
          /\ UNCHANGED <<issued, steps>>
     ELSE IF ~mailOk
     THEN /\ last' = Fail(req, 500, "mail error", <<>>)
          /\ UNCHANGED <<issued, steps>>
     ELSE /\ Step
          /\ issued' = issued \cup {createToken(Found(users, u))}
          /\ last' = Resp(req, 200, "Password reset email sent!", NoSession, NoSession,
                          <<>>)
  /\ UNCHANGED <<users, shops, media, now, nextId, nextMedia, spent, prod, pending>>

\* ---------------------------------------------------- POST /reset-password
ResetPassword(token, newPassword) ==
  LET req == Req("reset-password", NoValue, NoValue, token, NoId)
      v == jwtVerify(token)
      u == findById(users, token.id)
  IN
  /\ Accept
  /\ IF token = NoToken \/ newPassword = NoValue
     THEN /\ last' = Fail(req, 400, "Token and new password are required", <<>>)
          /\ UNCHANGED <<users, steps>>
     ELSE IF v /= "ok"
     THEN /\ last' = Fail(req, 500, v, <<>>)
          /\ UNCHANGED <<users, steps>>
     ELSE IF token.wrap /= "user"
     THEN \* decoded.user is undefined: reading its _id throws
          /\ last' = Fail(req, 500, "TypeError", <<>>)
          /\ UNCHANGED <<users, steps>>
     ELSE IF u = NoId
     THEN /\ last' = Fail(req, 404, "User not found", <<>>)
          /\ UNCHANGED <<users, steps>>
     ELSE /\ Step
          /\ users' = [users EXCEPT ![u].password = Hash(newPassword)]
          /\ last' = Resp(req, 200, "Password has been reset successfully", NoSession,
                          NoSession, <<>>)
  /\ UNCHANGED <<shops, media, issued, now, nextId, nextMedia, spent, prod, pending>>

\* ------------------------------------------------------ POST /create-shop
\* isActivated is not set by the handler: the schema default (false) applies.
\* info stands for the profile fields name, description, address, phoneNumber
\* and zipCode together.
ShopDoc(info, email, password, avatar) ==
  [info |-> info, email |-> email, password |-> Hash(password), avatar |-> avatar,
   isActivated |-> FALSE, withdrawMethod |-> NoValue]

\* decoded.email: only the flat payload has an email at its top level
TopEmail(t) == IF t.wrap = "flat" THEN t.email ELSE NoValue

\* The catch block of create-shop and of the shop /activation
ShopTokenError(req, name) ==
  IF name = "JsonWebTokenError" THEN Fail(req, 400, "Invalid token", <<>>)
  ELSE Fail(req, 500, name, <<>>)

CreateShop(email, password, token, uploadOk, mailOk) ==
  LET req == Req("create-shop", email, NoValue, token, NoId)
      v == jwtVerify(token)
  IN
  /\ Accept
  /\ IF token = NoToken
     THEN /\ last' = Fail(req, 400, "Activation token is missing", <<>>)
          /\ UNCHANGED <<shops, media, issued, nextId, nextMedia, steps>>
     ELSE IF v /= "ok"
     THEN /\ last' = ShopTokenError(req, v)
          /\ UNCHANGED <<shops, media, issued, nextId, nextMedia, steps>>
     ELSE IF email /= TopEmail(token)
     THEN /\ last' = Fail(req, 400, "Invalid activation token", <<>>)
          /\ UNCHANGED <<shops, media, issued, nextId, nextMedia, steps>>
     ELSE IF EmailTaken(shops, email)
     THEN /\ last' = Fail(req, 400, "User already exists", <<>>)
          /\ UNCHANGED <<shops, media, issued, nextId, nextMedia, steps>>
     ELSE IF ~uploadOk
     THEN /\ last' = Fail(req, 500, "upload failed", <<>>)
          /\ UNCHANGED <<shops, media, issued, nextId, nextMedia, steps>>
     ELSE /\ Step
          /\ media' = media \cup {nextMedia}
          /\ nextMedia' = nextMedia + 1
          /\ shops' = Put(shops, nextId, ShopDoc("i1", email, password, nextMedia))
          /\ nextId' = nextId + 1
          /\ IF mailOk
             THEN /\ issued' = issued \cup
                       {createActivationToken([id |-> nextId, email |-> email])}
                  /\ last' = Resp(req, 201, "Please check your email", NoSession,
                                  NoSession, <<Upload(nextMedia)>>)
             ELSE /\ issued' = issued
                  /\ last' = Fail(req, 500, "mail error", <<Upload(nextMedia)>>)
  /\ UNCHANGED <<users, now, spent, prod, pending>>

\* the check as it would be if it never fired
AlreadyActivatedUnchecked(seller) == FALSE

\* if (seller.isActivated)
AlreadyActivated(seller) == seller.isActivated

\* ---------------------------------------------------- POST /activation (shop)
ActivateShop(token) ==
  LET req == Req("shop-activation", NoValue, NoValue, token, NoId)
      v == jwtVerify(token)
      s == findOne(shops, TopEmail(token))
  IN
  /\ Accept
  /\ IF token = NoToken
     THEN /\ last' = Fail(req, 400, "Activation token is missing", <<>>)
          /\ UNCHANGED <<shops, steps, spent>>
     ELSE IF v /= "ok"
     THEN /\ last' = ShopTokenError(req, v)
          /\ UNCHANGED <<shops, steps, spent>>
     ELSE IF s = NoId
     THEN /\ last' = Fail(req, 404, "User not found", <<>>)
          /\ UNCHANGED <<shops, steps, spent>>
     ELSE IF AlreadyActivated(shops[s])
     THEN /\ last' = Fail(req, 400, "Account is already activated", <<>>)
          /\ UNCHANGED <<shops, steps, spent>>
     ELSE /\ Step
          /\ shops' = [shops EXCEPT ![s].isActivated = TRUE]
          /\ spent' = spent \cup {<<token, s>>}
          /\ last' = Resp(req, 200, "Account activated successfully!", NoSession,
                          NoSession, <<>>)
  /\ UNCHANGED <<users, media, issued, now, nextId, nextMedia, prod, pending>>

\* the check as it would be if it never fired
NotActivatedUnchecked(seller) == FALSE

\* if (!seller.isActivated)
NotActivated(seller) == ~seller.isActivated

\* ------------------------------------------------------ POST /login-shop
LoginShop(email, password) ==
  LET req == Req("login-shop", email, password, NoToken, NoId)
      s == findOne(shops, email)
  IN
  /\ Accept
  /\ last' = IF email = NoValue \/ password = NoValue
             THEN Fail(req, 400, "Please provide all fields!", <<>>)
             ELSE IF s = NoId
             THEN Fail(req, 400, "User doesn't exist!", <<>>)
             ELSE IF ~comparePassword(password, shops[s].password)
             THEN Fail(req, 400, "Please provide the correct information", <<>>)
             ELSE IF NotActivated(shops[s])
             THEN Fail(req, 400, "Account is not activated", <<>>)
             ELSE sendShopToken(req, s, 200)
  /\ UNCHANGED <<users, shops, media, issued, now, nextId, nextMedia, steps, spent, prod, pending>>

\* ------------------------------------------------ PUT /update-shop-avatar
\* the two media calls as they would be with the upload made first
replaceAvatarUploadFirst(old, new) == <<Upload(new), Destroy(old)>>

\* await cloudinary.uploader.destroy(...); await cloudinary.uploader.upload(...)
replaceAvatar(old, new) == <<Destroy(old), Upload(new)>>

\* caller: the shop isSeller resolved from the session (req.seller)
UpdateShopAvatar(caller, destroyOk, uploadOk) ==
  LET req == Req("update-shop-avatar", NoValue, NoValue, NoToken, caller)
      s == findById(shops, caller)
      old == shops[s].avatar
  IN
  /\ Accept
  /\ caller \in DOMAIN shops
  /\ IF s = NoId
     THEN /\ last' = Fail(req, 404, "User not found", <<>>)
          /\ UNCHANGED <<shops, media, nextMedia, steps>>
     ELSE IF ~destroyOk
     THEN /\ last' = Fail(req, 500, "destroy failed", <<Destroy(old)>>)
          /\ UNCHANGED <<shops, media, nextMedia, steps>>
     ELSE IF ~uploadOk
     THEN /\ Step
          /\ media' = media \ {old}
          /\ last' = Fail(req, 500, "upload failed", <<Destroy(old)>>)
          /\ UNCHANGED <<shops, nextMedia>>
     ELSE /\ Step
          /\ media' = (media \ {old}) \cup {nextMedia}
          /\ nextMedia' = nextMedia + 1
          /\ shops' = [shops EXCEPT ![s].avatar = nextMedia]
          /\ last' = Resp(req, 200, "success", NoSession, NoSession,
                          replaceAvatar(old, nextMedia))
  /\ UNCHANGED <<users, issued, now, nextId, spent, prod, pending>>

\* ------------------------------------------------ PUT /update-seller-info
\* the update as it would be if the whole body were assigned to the document
SellerInfoMassAssigned(seller, info) == [seller EXCEPT !.info = info, !.isActivated = TRUE]

\* seller.name = name; ... seller.zipCode = zipCode
SellerInfo(seller, info) == [seller EXCEPT !.info = info]

UpdateSellerInfo(caller, info) ==
  LET req == Req("update-seller-info", NoValue, NoValue, NoToken, caller)
      s == findById(shops, caller)
  IN
  /\ Accept
  /\ caller \in DOMAIN shops
  /\ IF s = NoId
     THEN /\ last' = Fail(req, 404, "User not found", <<>>)
          /\ UNCHANGED <<shops, steps>>
     ELSE /\ Step
          /\ shops' = [shops EXCEPT ![s] = SellerInfo(shops[s], info)]
          /\ last' = Resp(req, 200, "success", NoSession, NoSession, <<>>)
  /\ UNCHANGED <<users, media, issued, now, nextId, nextMedia, spent, prod, pending>>

\* -------------------------------------------- PUT /update-payment-methods
UpdatePaymentMethods(caller, withdrawMethod) ==
  LET req == Req("update-payment-methods", NoValue, NoValue, NoToken, caller)
  IN
  /\ Accept
  /\ caller \in DOMAIN shops
  /\ Step
  /\ shops' = [shops EXCEPT ![caller].withdrawMethod = withdrawMethod]
  /\ last' = Resp(req, 200, "success", NoSession, NoSession, <<>>)
  /\ UNCHANGED <<users, media, issued, now, nextId, nextMedia, spent, prod, pending>>

\* ----------------------------------------- DELETE /delete-withdraw-method
DeleteWithdrawMethod(caller) ==
  LET req == Req("delete-withdraw-method", NoValue, NoValue, NoToken, caller)
      s == findById(shops, caller)
  IN
  /\ Accept
  /\ caller \in DOMAIN shops
  /\ IF s = NoId
     THEN /\ last' = Fail(req, 404, "Seller not found", <<>>)
          /\ UNCHANGED <<shops, steps>>
     ELSE /\ Step
          /\ shops' = [shops EXCEPT ![s].withdrawMethod = NoValue]
          /\ last' = Resp(req, 200, "success", NoSession, NoSession, <<>>)
  /\ UNCHANGED <<users, media, issued, now, nextId, nextMedia, spent, prod, pending>>

\* ---------------------------------------------- DELETE /delete-seller/:id
\* findByIdAndDelete and nothing else: no Media Service call, and 200 whether
\* or not a shop had that id.
DeleteSeller(caller, id) ==
  LET req == Req("delete-seller", NoValue, NoValue, NoToken, id)
  IN
  /\ Accept
  /\ IF isAdmin(caller) /= 0
     THEN /\ last' = Fail(req, isAdmin(caller), "not allowed", <<>>)
          /\ UNCHANGED <<shops, steps>>
     ELSE IF id \notin DOMAIN shops
     THEN /\ last' = Resp(req, 200, "Seller deleted successfully", NoSession,
                          NoSession, <<>>)
          /\ UNCHANGED <<shops, steps>>
     ELSE /\ Step
          /\ shops' = Remove(shops, id)
          /\ last' = Resp(req, 200, "Seller deleted successfully", NoSession, NoSession,
                          <<>>)
  /\ UNCHANGED <<users, media, issued, now, nextId, nextMedia, spent, prod, pending>>

\* ------------------------------------------- Product: images validator
Image(i) == [public_id |-> i, url |-> i]

\* the validator as it would be with an upper limit only
arrayLimitAtMost(val) == Len(val) <= RequiredImages

arrayLimit(val) == Len(val) = RequiredImages

\* Product validation of a candidate images list (validate: [arrayLimit, ...])
ValidateProduct(val) ==
  /\ images' = val
  /\ accepted' = arrayLimit(val)
  /\ UNCHANGED <<acct, pending>>

\* ------------------------------------------------------------------- Next
\* ids of documents, and one id that no document has
Ids == 1..nextId
OptEmails == Emails \cup {NoValue}
OptPasswords == Passwords \cup {NoValue}

Next ==
  \/ Tick
  \/ Deliver
  \/ \E n \in Names \cup {NoValue}, e \in OptEmails, p \in ChosenPasswords \cup {NoValue},
        a \in BOOLEAN, u \in BOOLEAN, m \in BOOLEAN : CreateUser(n, e, p, a, u, m)
  \/ \E t \in TokenInputs : ActivateUser(t)
  \/ \E e \in OptEmails, p \in OptPasswords : LoginUser(e, p)
  \/ \E c \in Ids, e \in Emails, p \in Passwords, t \in Phones, n \in NewNames :
       UpdateUserInfo(c, e, p, t, n)
  \/ \E c \in Ids, a \in BOOLEAN, d \in BOOLEAN : UpdateAvatar(c, a, d)
  \/ \E c \in Callers, i \in Ids, d \in BOOLEAN : DeleteUser(c, i, d)
  \/ \E e \in OptEmails, m \in BOOLEAN : ForgotPassword(e, m)
  \/ \E t \in TokenInputs, p \in NewPasswords \cup {NoValue} : ResetPassword(t, p)
  \/ \E e \in Emails, p \in ChosenPasswords, t \in ShopTokenInputs, u \in BOOLEAN,
        m \in BOOLEAN : CreateShop(e, p, t, u, m)
  \/ \E t \in ShopTokenInputs : ActivateShop(t)
  \/ \E e \in OptEmails, p \in OptPasswords : LoginShop(e, p)
  \/ \E c \in Ids, d \in BOOLEAN, u \in BOOLEAN : UpdateShopAvatar(c, d, u)
  \/ \E c \in Ids, i \in NewInfos : UpdateSellerInfo(c, i)
  \/ \E c \in Ids, w \in WithdrawMethods : UpdatePaymentMethods(c, w)
  \/ \E c \in Ids : DeleteWithdrawMethod(c)
  \/ \E c \in Callers, i \in Ids : DeleteSeller(c, i)

Spec == Init /\ [][Next]_vars

\* The Product validator on its own: every images list up to MaxImages long.
ImageLists == UNION {[1..n -> {Image(1), Image(2)}] : n \in 0..MaxImages}

NextProduct == \E val \in ImageLists : ValidateProduct(val)

SpecProduct == Init /\ [][NextProduct]_vars

\* ------------------------------------------------------- the user handlers
\* Registration, activation, login and update-user-info on their own, in runs
\* long enough for two accounts to be stored and then updated.
InitInfo ==
  /\ Empty
  /\ steps = MaxInfoSteps

NextInfo ==
  \/ Deliver
  \/ \E e \in Emails, p \in ChosenPasswords, m \in BOOLEAN :
       CreateUser("n1", e, p, TRUE, TRUE, m)
  \/ \E t \in TokenInputs : ActivateUser(t)
  \/ \E e \in OptEmails, p \in OptPasswords : LoginUser(e, p)
  \/ \E c \in Ids, e \in Emails, p \in Passwords, t \in Phones, n \in NewNames :
       UpdateUserInfo(c, e, p, t, n)

SpecInfo == InitInfo /\ [][NextInfo]_vars

\* ------------------------------------------------------ concurrent requests
\* The user /activation and create-shop with every await a step of its own:
\* the handler runs up to and including the findOne, is suspended, and resumes
\* with the write after other requests may have run.

\* POST /activation (user), up to `let user = await User.findOne({ email })`
ActivateUserFindOne(p, token) ==
  LET v == jwtVerify(token)
  IN
  /\ pending[p].pc = "idle"
  /\ pending' = [pending EXCEPT ![p] =
       IF token = NoToken THEN Answered(400)
       ELSE IF v /= "ok" THEN Answered(500)
       ELSE IF token.wrap /= "user" THEN Answered(500)
       ELSE IF EmailTaken(users, token.email) THEN Answered(400)
       ELSE [Idle EXCEPT !.pc = "create", !.token = token]]
  /\ UNCHANGED <<acct, prod>>

\* ... and from `user = await User.create({...})` on
ActivateUserCreate(p) ==
  LET token == pending[p].token
  IN
  /\ pending[p].pc = "create"
  /\ IF token.password = NoValue
     THEN /\ pending' = [pending EXCEPT ![p] = Answered(500)]
          /\ UNCHANGED <<users, nextId, steps, spent>>
     ELSE /\ Step
          /\ users' = Put(users, nextId,
                          UserDoc(token.name, token.email, token.password, token.avatar))
          /\ nextId' = nextId + 1
          /\ spent' = spent \cup {<<token, nextId>>}
          /\ pending' = [pending EXCEPT ![p] =
                           Answered(sendToken(last, nextId, 201, Undefined).status)]
  /\ UNCHANGED <<shops, media, issued, now, nextMedia, last, prod>>

\* POST /create-shop, up to `await Shop.findOne({ email })`
CreateShopFindOne(p, email, password, token) ==
  LET v == jwtVerify(token)
  IN
  /\ pending[p].pc = "idle"
  /\ pending' = [pending EXCEPT ![p] =
       IF token = NoToken THEN Answered(400)
       ELSE IF v /= "ok" THEN Answered(ShopTokenError(last, v).status)
       ELSE IF email /= TopEmail(token) THEN Answered(400)
       ELSE IF EmailTaken(shops, email) THEN Answered(400)
       ELSE [Idle EXCEPT !.pc = "save", !.email = email, !.password = password]]
  /\ UNCHANGED <<acct, prod>>

\* ... and from the avatar upload on: upload, new Shop, seller.save(), the mail
CreateShopSave(p, uploadOk, mailOk) ==
  LET email == pending[p].email
  IN
  /\ pending[p].pc = "save"
  /\ IF ~uploadOk
     THEN /\ pending' = [pending EXCEPT ![p] = Answered(500)]
          /\ UNCHANGED <<shops, media, issued, nextId, nextMedia, steps>>
     ELSE /\ Step
          /\ media' = media \cup {nextMedia}
          /\ nextMedia' = nextMedia + 1
          /\ shops' = Put(shops, nextId,
                          ShopDoc("i1", email, pending[p].password, nextMedia))
          /\ nextId' = nextId + 1
          /\ issued' = IF mailOk
                       THEN issued \cup {createActivationToken([id |-> nextId,
                                                                email |-> email])}
                       ELSE issued
          /\ pending' = [pending EXCEPT ![p] = Answered(IF mailOk THEN 201 ELSE 500)]
  /\ UNCHANGED <<users, now, last, spent, prod>>

\* the response of a request in flight leaves the server
Respond(p) ==
  /\ pending[p].pc = "answered"
  /\ pending' = [pending EXCEPT ![p] = Idle]
  /\ UNCHANGED <<acct, prod>>

NextRace ==
  \/ Tick
  \/ Deliver
  \/ \E n \in Names, e \in Emails, p \in ChosenPasswords, u \in BOOLEAN, m \in BOOLEAN :
       CreateUser(n, e, p, TRUE, u, m)
  \/ \E p \in Procs, t \in TokenInputs : ActivateUserFindOne(p, t)
  \/ \E p \in Procs : ActivateUserCreate(p)
  \/ \E p \in Procs, e \in Emails, w \in ChosenPasswords, t \in ShopTokenInputs :
       CreateShopFindOne(p, e, w, t)
  \/ \E p \in Procs, u \in BOOLEAN, m \in BOOLEAN : CreateShopSave(p, u, m)
  \/ \E p \in Procs : Respond(p)

SpecRace == Init /\ [][NextRace]_vars
\* ==================================================================== claims

StoredUser(e) == findOne(users, e)
StoredShop(e) == findOne(shops, e)

\* C1: after create-user(e, p) and the user /activation with the token it
\* issued, login-user(e, p) answers 201, sets the `token` cookie, and the
\* subject id in that session token is the id of the account stored for e.
\* (Every stored user got there through create-user and /activation, so the
\* case is: login-user with the email and the password of a stored user.)
C1_LoginAfterActivation ==
  (/\ last.op = "login-user"
   /\ StoredUser(last.email) /= NoId
   /\ comparePassword(last.password, users[StoredUser(last.email)].password))
  => /\ last.status = 201
     /\ last.cookie /= NoSession
     /\ last.cookie = last.session
     /\ last.cookie.sub = StoredUser(last.email)

\* The activation tokens create-user and create-shop have mailed for address e
RegisteredUser(e) == \E t \in issued : t.wrap = "user" /\ t.id = NoId /\ t.email = e
RegisteredShop(e) == \E t \in issued : t.wrap = "flat" /\ t.email = e

AlreadyExists(r) == r.status = 400 /\ r.msg = "User already exists"
UpstreamFailure(r) == r.msg \in {"Error uploading avatar", "upload failed", "mail error"}
ValidShopToken(r) == jwtVerify(r.reqToken) = "ok" /\ TopEmail(r.reqToken) = r.email

\* C2 as stated: once a registration with email e has succeeded, a second valid
\* registration with e (create-user, create-shop) fails with AlreadyExists (400).
C2_SecondRegistrationFails ==
  [][/\ (/\ last'.op = "create-user"
         /\ last'.msg /= "Missing required fields"
         /\ ~UpstreamFailure(last')
         /\ RegisteredUser(last'.email))
        => AlreadyExists(last')
     /\ (/\ last'.op = "create-shop"
         /\ ValidShopToken(last')
         /\ ~UpstreamFailure(last')
         /\ RegisteredShop(last'.email))
        => AlreadyExists(last')]_vars

\* C2 amended: while an account with email e is stored in the collection, a
\* valid registration with e fails with "User already exists" (400) and writes
\* nothing; create-user stores no account, so it can be repeated until the
\* /activation has stored one.
C2_StoredEmailRejected ==
  [][/\ (/\ last'.op = "create-user"
         /\ last'.msg /= "Missing required fields"
         /\ StoredUser(last'.email) /= NoId)
        => AlreadyExists(last') /\ UNCHANGED <<users, shops, media, issued>>
     /\ (/\ last'.op = "create-shop"
         /\ ValidShopToken(last')
         /\ StoredShop(last'.email) /= NoId)
        => AlreadyExists(last') /\ UNCHANGED <<users, shops, media, issued>>]_vars

C2_Witness ==
  /\ last.op = "create-user"
  /\ AlreadyExists(last)
  /\ RegisteredUser(last.email)
  /\ StoredUser(last.email) /= NoId

\* A later /activation call, of the same flow, with a token already spent
Replayed(r, sp) ==
  /\ r.reqToken = sp[1]
  /\ jwtVerify(sp[1]) = "ok"
  /\ \/ r.op = "activation" /\ sp[1].wrap = "user"
     \/ r.op = "shop-activation" /\ sp[1].wrap = "flat"

FlagNeverCleared ==
  \A i \in DOMAIN shops \cap DOMAIN shops' : shops[i].isActivated => shops'[i].isActivated

\* C3 as stated: once an /activation call with a still-valid token has gone
\* through, every later /activation call with it fails (400) and leaves the
\* collections unchanged; isActivated goes from false to true once.
C3_SingleUse ==
  [][/\ \A sp \in spent :
          Replayed(last', sp) => last'.status = 400 /\ UNCHANGED <<users, shops>>
     /\ FlagNeverCleared]_vars

\* C3 amended: the same, for as long as the account that the first call stored
\* (user) or activated (shop) is still stored: user flow "User already exists",
\* shop flow "Account is already activated".
C3_SingleUseWhileStored ==
  [][/\ \A sp \in spent :
          (Replayed(last', sp) /\ sp[2] \in DOMAIN users \cup DOMAIN shops)
          => /\ last'.status = 400
             /\ last'.msg = IF last'.op = "activation" THEN "User already exists"
                            ELSE "Account is already activated"
             /\ UNCHANGED <<users, shops>>
     /\ FlagNeverCleared]_vars

C3_Witness ==
  /\ last.op = "shop-activation"
  /\ last.msg = "Account is already activated"
  /\ \E sp \in spent : sp[1] = last.reqToken /\ sp[2] \in DOMAIN shops

\* C6: isActivated changes only in the shop /activation handler; every other
\* operation leaves it as it is in every stored shop, and a shop stored by
\* create-shop has it unset.
C6_OnlyActivationSetsFlag ==
  [][/\ \A i \in DOMAIN shops \cap DOMAIN shops' :
          shops'[i].isActivated /= shops[i].isActivated
          => last'.op = "shop-activation" /\ last'.status = 200
     /\ \A i \in DOMAIN shops' \ DOMAIN shops :
          last'.op = "create-shop" /\ ~shops'[i].isActivated]_vars

C6_Witness ==
  /\ last.op = "update-seller-info"
  /\ last.status = 200
  /\ shops[last.id].info \in NewInfos
  /\ ~shops[last.id].isActivated
  /\ \E i \in DOMAIN shops : shops[i].isActivated

\* C7: create-user never writes to the User collection, and a User document
\* appears only in a user /activation call whose token verified and carried
\* that document's email, which it keeps.
C7_PersistedOnlyByActivation ==
  [][/\ last'.op = "create-user" => users' = users
     /\ \A i \in DOMAIN users' \ DOMAIN users :
          /\ last'.op = "activation"
          /\ jwtVerify(last'.reqToken) = "ok"
          /\ last'.reqToken.email = users'[i].email
     /\ \A i \in DOMAIN users \cap DOMAIN users' : users'[i].email = users[i].email]_vars

C7_Witness ==
  /\ last.op = "activation"
  /\ last.reqToken \in issued
  /\ \E i \in DOMAIN users :
       /\ <<last.reqToken, i>> \in spent
       /\ users[i].email = last.reqToken.email

\* C8: a successful delete-user/:id calls the Media Service delete with exactly
\* the avatar public_id stored on that user and leaves no user with that id;
\* for an id with no user an admin gets 404 and no Media Service call is made.
C8_DeleteUserDestroysAvatar ==
  [][last'.op = "delete-user" =>
       /\ last'.status = 200 =>
            /\ last'.id \in DOMAIN users
            /\ last'.calls = <<Destroy(users[last'.id].avatar)>>
            /\ last'.id \notin DOMAIN users'
       /\ (last'.id \notin DOMAIN users /\ last'.status \notin {401, 403}) =>
            /\ last'.status = 404
            /\ last'.calls = <<>>
            /\ UNCHANGED <<users, media>>]_vars

C8_Witness ==
  /\ last.op = "delete-user"
  /\ last.status = 200
  /\ Len(last.calls) = 1
  /\ last.calls[1].id \notin media
  /\ last.id \notin DOMAIN users

\* C4: an expired or tampered token is rejected with status 400 by the user
\* /activation, the shop /activation and /reset-password, and the handlers
\* change no collection in that case.
C4_BadTokenIs400 ==
  (/\ last.op \in {"activation", "shop-activation", "reset-password"}
   /\ last.reqToken /= NoToken
   /\ jwtVerify(last.reqToken) /= "ok")
  => last.status = 400

\* C5: login-shop issues a session token only for an activated shop; with the
\* correct email and password of a shop whose flag is unset it fails with
\* "Account is not activated" (400) and returns no token.
C5_LoginShopGated ==
  last.op = "login-shop" =>
    /\ last.session /= NoSession =>
         /\ last.session.sub \in DOMAIN shops
         /\ shops[last.session.sub].email = last.email
         /\ shops[last.session.sub].isActivated
    /\ \A s \in DOMAIN shops :
         (/\ shops[s].email = last.email
          /\ comparePassword(last.password, shops[s].password)
          /\ ~shops[s].isActivated)
         => /\ last.status = 400
            /\ last.msg = "Account is not activated"
            /\ last.session = NoSession
            /\ last.cookie = NoSession

C5_Witness ==
  /\ last.op = "login-shop"
  /\ last.msg = "Account is not activated"
  /\ StoredShop(last.email) /= NoId
  /\ ~shops[StoredShop(last.email)].isActivated

\* C9: delete-seller/:id removes the shop and issues a Media Service delete
\* with the shop's stored avatar public_id.
C9_DeleteSellerDestroysAvatar ==
  [][(/\ last'.op = "delete-seller"
      /\ last'.status = 200
      /\ last'.id \in DOMAIN shops)
     => /\ last'.id \notin DOMAIN shops'
        /\ last'.calls = <<Destroy(shops[last'.id].avatar)>>]_vars

C1_Witness ==
  /\ last.op = "login-user"
  /\ StoredUser(last.email) /= NoId
  /\ comparePassword(last.password, users[StoredUser(last.email)].password)

\* C10: the images validator accepts a list exactly when it has 5 entries, for
\* every length from 0 to MaxImages.
C10_ExactlyFiveImages == accepted <=> (Len(images) = 5)

C10_Witness == accepted /\ Len(images) = 5 /\ images[1] /= images[5]

\* --------------------------------------------------------------------- C11
\* C11: login-user and login-shop, given an email and a password where no
\* stored account of that collection has the email, answer with status 404
\* (NotFound) and issue no session token, in the body or as a cookie.
LoginOps == {"login-user", "login-shop"}
NoAccount(r) ==
  IF r.op = "login-user" THEN StoredUser(r.email) = NoId ELSE StoredShop(r.email) = NoId

C11_UnknownEmailIs404 ==
  (last.op \in LoginOps /\ last.email /= NoValue /\ last.password /= NoValue
     /\ NoAccount(last))
    => (last.status = 404 /\ last.session = NoSession /\ last.cookie = NoSession)

AvatarOps == {"update-avatar", "update-shop-avatar"}
AvatarOf(r) == IF r.op = "update-avatar" THEN users[r.id].avatar ELSE shops[r.id].avatar
DeleteFirst(r) ==
  \A i, j \in DOMAIN r.calls :
    /\ r.calls[i].call = "destroy" => r.calls[i].id = AvatarOf(r)
    /\ (r.calls[i].call = "destroy" /\ r.calls[j].call = "upload") => i < j
BothDone(r) ==
  /\ Len(r.calls) = 2
  /\ r.calls[1] = Destroy(AvatarOf(r))
  /\ r.calls[2].call = "upload"

C13_AvatarReplacedAfterBoth ==
  [][(last = NoResponse /\ last'.op \in AvatarOps) =>
       /\ DeleteFirst(last')
       /\ (Len(last'.calls) > 0 /\ ~BothDone(last')) => last'.status >= 400
       /\ ~(last'.status = 200 /\ BothDone(last')) => (users' = users /\ shops' = shops)
       /\ (last'.status = 200 /\ BothDone(last')) =>
            /\ last'.calls[2].id \in media'
            /\ IF last'.op = "update-avatar"
               THEN /\ shops' = shops
                    /\ users' = [users EXCEPT ![last'.id].avatar = last'.calls[2].id]
               ELSE /\ users' = users
                    /\ shops' = [shops EXCEPT ![last'.id].avatar = last'.calls[2].id]
    ]_vars

\* an update-shop-avatar whose upload failed after the old avatar was deleted:
\* the shop still refers to the deleted object
C13_Witness ==
  /\ last.op = "update-shop-avatar"
  /\ last.status = 500
  /\ last.calls = <<Destroy(shops[last.id].avatar)>>
  /\ shops[last.id].avatar \notin media

\* --------------------------------------------------------------------- C14
\* C14: an update-user-info request changes no stored user document other
\* than that of the account its session token identifies (req.user),
\* whatever email, password, name and phone number its body carries.
C14_OnlyCallersAccount ==
  [][(last = NoResponse /\ last'.op = "update-user-info") =>
       \A b \in DOMAIN users :
         b /= last'.id => (b \in DOMAIN users' /\ users'[b] = users[b])
    ]_vars
====
